---- MODULE Spec2Model ----
(***************************************************************************)
(* Model of the ecocal scrapers (src/scripts/scrape.js): the month-page    *)
(* scraper in its two versions and the weekly-feed puller in its two       *)
(* versions, from configuration to the written forexfactory.json and the   *)
(* exit status.  Text is modelled as TLA+ strings handled character by     *)
(* character, instants as minutes since 1970-01-01T00:00Z, zones as fixed  *)
(* UTC offsets in hours.                                                   *)
(***************************************************************************)
EXTENDS Integers, Sequences, FiniteSets, TLC

VARIABLES
    script,      \* which program of scrape.js runs
    TZ,          \* zone of the run: [name, off] (TZ, FEED_TZ in the last puller)
    CURRENCIES,  \* currency allow-list (FF_CURRENCIES)
    IMPACTS,     \* impact allow-list (FF_IMPACTS)
    now,         \* the month of DateTime.now(): [y, m]
    MONTHS_AHEAD, \* months after the current one to fetch (FF_MONTHS_AHEAD)
    months,      \* the window list built by monthList()
    wi,          \* index in months of the window being processed
    attempt,     \* attempt number of the fetch in progress
    pause,       \* the wait after a failed attempt made by the last step:
                 \* [k, ms], k = 0 when the step made none
    fetched,     \* per window: "none" (not reached), "ok" or "failed"
    all,         \* accumulated records
    uniq,        \* reduced list (after dedupe and sort)
    file,        \* forexfactory.json: [written, data]
    writes,      \* number of writes of the file
    exitCode,    \* process exit status, -1 while running
    pc,          \* position of main
    probe,       \* input and result of a single evaluation of the pure parts
    IMPACT_COLOR_MODE, \* mode of build-ics.js: "split" or another text
    ics          \* the calendar files build-ics.js wrote: [path, cur, key, events]

vars == <<script, TZ, CURRENCIES, IMPACTS, now, MONTHS_AHEAD, months, wi, attempt,
          pause, fetched, all, uniq, file, writes, exitCode, pc, probe,
          IMPACT_COLOR_MODE, ics>>

-----------------------------------------------------------------------------
(* Characters and strings *)

\* s.substring over 1-based inclusive indices, clipped to the string
Sub(s, a, b) ==
    LET Clip(lo, hi) == IF lo > hi THEN "" ELSE SubSeq(s, lo, hi)
    IN  Clip(IF a < 1 THEN 1 ELSE a, IF b > Len(s) THEN Len(s) ELSE b)

CharAt(s, i) == Sub(s, i, i)

IsUpper(c) ==
    c \in {"A", "B", "C", "D", "E", "F", "G", "H", "I", "J", "K", "L", "M",
          "N", "O", "P", "Q", "R", "S", "T", "U", "V", "W", "X", "Y", "Z"}

IsLower(c) ==
    c \in {"a", "b", "c", "d", "e", "f", "g", "h", "i", "j", "k", "l", "m",
          "n", "o", "p", "q", "r", "s", "t", "u", "v", "w", "x", "y", "z"}

IsDigit(c) == c \in {"0", "1", "2", "3", "4", "5", "6", "7", "8", "9"}
IsSpace(c) == c = " "
\* \w of the regular expressions
IsWordChar(c) == IsUpper(c) \/ IsLower(c) \/ IsDigit(c) \/ c = "_"

\* The least element of a set of positive integers, 0 when it is empty
First(S) ==
    CHOOSE m \in {IF T = {} THEN 0 ELSE CHOOSE x \in T : \A y \in T : x <= y : T \in {S}} : TRUE

\* The images of the letters under the two case mappings
CaseOf ==
    LET upper == "ABCDEFGHIJKLMNOPQRSTUVWXYZ"
        lower == "abcdefghijklmnopqrstuvwxyz"
    IN  [toLower |-> [c \in {SubSeq(upper, i, i) : i \in 1..26} |->
                         LET k == CHOOSE i \in 1..26 : SubSeq(upper, i, i) = c
                         IN  SubSeq(lower, k, k)],
         toUpper |-> [c \in {SubSeq(lower, i, i) : i \in 1..26} |->
                         LET k == CHOOSE i \in 1..26 : SubSeq(lower, i, i) = c
                         IN  SubSeq(upper, k, k)]]

\* Each character of s from index i on that case maps, replaced by its image
RECURSIVE MapChars(_, _, _)
MapChars(s, i, case) ==
    IF i > Len(s) THEN ""
    ELSE (IF CharAt(s, i) \in DOMAIN case THEN case[CharAt(s, i)] ELSE CharAt(s, i))
         \o MapChars(s, i + 1, case)

toLowerCase(s) == MapChars(s, 1, CaseOf.toLower)
toUpperCase(s) == MapChars(s, 1, CaseOf.toUpper)

\* s.slice(from) with a 1-based index
Drop(s, from) == Sub(s, from, Len(s))

StartsAt(s, i, pat) ==
    /\ i >= 1
    /\ i + Len(pat) - 1 <= Len(s)
    /\ Sub(s, i, i + Len(pat) - 1) = pat

\* String.prototype.indexOf, 1-based, 0 when absent
IndexOf(s, pat) == First({i \in 1..(Len(s) + 1) : StartsAt(s, i, pat)})

\* String.prototype.includes
includes(s, pat) == IndexOf(s, pat) > 0

\* s.replace(pat, '') with a string pattern: the first occurrence is removed
RemoveFirst(s, pat) ==
    LET RemoveAt(i) == IF i = 0 THEN s ELSE Sub(s, 1, i - 1) \o Drop(s, i + Len(pat))
    IN  RemoveAt(IndexOf(s, pat))

RECURSIVE TrimLeft(_)
TrimLeft(s) == IF Len(s) > 0 /\ IsSpace(CharAt(s, 1)) THEN TrimLeft(Drop(s, 2)) ELSE s

\* String.prototype.trim
RECURSIVE trim(_)
trim(s) ==
    IF Len(s) > 0 /\ IsSpace(CharAt(s, Len(s))) THEN trim(Sub(s, 1, Len(s) - 1))
    ELSE TrimLeft(s)

\* s.replace(/\s+/g, ' ')
RECURSIVE CollapseSpaces(_, _)
CollapseSpaces(s, i) ==
    IF i > Len(s) THEN ""
    ELSE IF IsSpace(CharAt(s, i)) /\ i > 1 /\ IsSpace(CharAt(s, i - 1))
         THEN CollapseSpaces(s, i + 1)
         ELSE CharAt(s, i) \o CollapseSpaces(s, i + 1)

AllDigits(s) == Len(s) > 0 /\ \A i \in 1..Len(s) : IsDigit(CharAt(s, i))

\* parseInt(s, 10) of a string of digits
RECURSIVE parseInt(_)
parseInt(s) ==
    IF Len(s) = 0 THEN 0
    ELSE parseInt(Sub(s, 1, Len(s) - 1)) * 10 + (CHOOSE d \in 0..9 : ToString(d) = CharAt(s, Len(s)))

\* String(n).padStart(w, '0')
Pad(n, w) ==
    LET padStart(s) == Sub("0000", 1, w - Len(s)) \o s
    IN  padStart(ToString(n))

\* \b of the regular expressions: between positions i-1 and i of s
Boundary(s, i) == IsWordChar(CharAt(s, i - 1)) /= IsWordChar(CharAt(s, i))

-----------------------------------------------------------------------------
(* Calendar arithmetic: what Date.UTC, Date.prototype.toISOString and      *)
(* luxon compute on the proleptic Gregorian calendar.  An instant is a     *)
(* number of minutes since the epoch (seconds and milliseconds are always  *)
(* zero in these programs).                                                *)

DaysFromCivil(y, m, d) ==
    LET yy == IF m <= 2 THEN y - 1 ELSE y
        era == yy \div 400
        yoe == yy - era * 400
        mp == IF m > 2 THEN m - 3 ELSE m + 9
        doy == (153 * mp + 2) \div 5 + d - 1
        doe == yoe * 365 + yoe \div 4 - yoe \div 100 + doy
    IN  era * 146097 + doe - 719468

CivilFromDays(z) ==
    LET OfMonth(era, yoe, doy, mp) ==
            [y |-> yoe + era * 400 + (IF mp < 10 THEN 0 ELSE 1),
             m |-> IF mp < 10 THEN mp + 3 ELSE mp - 9,
             d |-> doy - (153 * mp + 2) \div 5 + 1]
        OfDay(era, yoe, doy) == OfMonth(era, yoe, doy, (5 * doy + 2) \div 153)
        OfYear(era, doe, yoe) ==
            OfDay(era, yoe, doe - (365 * yoe + yoe \div 4 - yoe \div 100))
        OfEra(era, doe) ==
            OfYear(era, doe,
                   (doe - doe \div 1460 + doe \div 36524 - doe \div 146096) \div 365)
    IN  OfEra((z + 719468) \div 146097, (z + 719468) % 146097)

DaysInMonth(y, m) ==
    IF m = 2 THEN (IF (y % 4 = 0 /\ y % 100 /= 0) \/ y % 400 = 0 THEN 29 ELSE 28)
    ELSE IF m \in {4, 6, 9, 11} THEN 30 ELSE 31

\* 1 = Monday .. 7 = Sunday, as luxon's weekday
Weekday(y, m, d) == ((DaysFromCivil(y, m, d) + 3) % 7) + 1

\* Date.UTC(year, monthIndex, day, hours, minutes, 0) with monthIndex = m - 1:
\* out-of-range days, hours and minutes roll over into the next units
DateUTC(y, m, d, hh, mi) ==
    ((DaysFromCivil(y, m, 1) + d - 1) * 24 + hh) * 60 + mi

\* The civil fields of instant ts read at offset off (hours)
FieldsAt(ts, off) ==
    LET FieldsOf(c, rest) ==
            [y |-> c.y, m |-> c.m, d |-> c.d, h |-> rest \div 60, mi |-> rest % 60]
        OfLocal(local) == FieldsOf(CivilFromDays(local \div 1440), local % 1440)
    IN  OfLocal(ts + off * 60)

DateText(f) == Pad(f.y, 4) \o "-" \o Pad(f.m, 2) \o "-" \o Pad(f.d, 2)

IsoText(f, suffix) ==
    DateText(f) \o "T" \o Pad(f.h, 2) \o ":" \o Pad(f.mi, 2) \o ":00.000" \o suffix

\* Date.prototype.toISOString
toISOString(ts) == IsoText(FieldsAt(ts, 0), "Z")

-----------------------------------------------------------------------------
(* Zones and luxon DateTime values.  A zone is [name, off]: an IANA name    *)
(* and its UTC offset in hours (the modelled zones have no daylight time). *)

Bangkok == [name |-> "Asia/Bangkok", off |-> 7]
UTCZone == [name |-> "UTC", off |-> 0]
Bogota == [name |-> "America/Bogota", off |-> -5]

Zones == {Bangkok, UTCZone, Bogota}

Invalid(zone) == [valid |-> FALSE, ts |-> 0, zone |-> zone]
Valid(ts, zone) == [valid |-> TRUE, ts |-> ts, zone |-> zone]

\* DateTime.fromObject: the instant of a wall-clock reading in a zone
FromFields(y, m, d, hh, mi, zone) ==
    IF /\ m \in 1..12
       /\ d \in 1..DaysInMonth(y, m)
       /\ (hh \in 0..23 \/ (hh = 24 /\ mi = 0))
       /\ mi \in 0..59
    THEN Valid(DateUTC(y, m, d, hh, mi) - zone.off * 60, zone)
    ELSE Invalid(zone)

\* dt.setZone(zone): the same instant read in another zone
setZone(dt, zone) == [dt EXCEPT !.zone = zone]

\* dt.toUTC()
toUTC(dt) == setZone(dt, UTCZone)

Fields(dt) == FieldsAt(dt.ts, dt.zone.off)

\* dt.set({ hour: 0, minute: 0, second: 0 })
SetMidnight(dt) ==
    LET MidnightOf(f) == FromFields(f.y, f.m, f.d, 0, 0, dt.zone)
    IN  IF dt.valid THEN MidnightOf(Fields(dt)) ELSE dt

\* dt.set({ year })
SetYear(dt, y) ==
    LET OnDay(f, last) ==
            FromFields(y, f.m, IF f.d > last THEN last ELSE f.d, f.h, f.mi, dt.zone)
        InYear(f) == OnDay(f, DaysInMonth(y, f.m))
    IN  IF dt.valid THEN InYear(Fields(dt)) ELSE dt

\* dt.toFormat('yyyy-LL-dd')
toFormatDate(dt) == DateText(Fields(dt))

OffsetText(zone) ==
    IF zone.name = "UTC" THEN "Z"
    ELSE (IF zone.off < 0 THEN "-" ELSE "+")
         \o Pad(IF zone.off < 0 THEN -zone.off ELSE zone.off, 2) \o ":00"

\* dt.toISO()
toISO(dt) == IsoText(Fields(dt), OffsetText(dt.zone))

\* The instant an ISO text with an explicit offset denotes, -1 when the text
\* is not such a timestamp (what DateTime.fromISO(s, { setZone: true }) reads)
InstantOfISO(s) ==
    IF /\ Len(s) >= 24
       /\ AllDigits(Sub(s, 1, 4)) /\ CharAt(s, 5) = "-"
       /\ AllDigits(Sub(s, 6, 7)) /\ CharAt(s, 8) = "-"
       /\ AllDigits(Sub(s, 9, 10)) /\ CharAt(s, 11) = "T"
       /\ AllDigits(Sub(s, 12, 13)) /\ CharAt(s, 14) = ":"
       /\ AllDigits(Sub(s, 15, 16)) /\ Sub(s, 17, 23) = ":00.000"
       /\ \/ Drop(s, 24) = "Z"
          \/ /\ Len(s) = 29
             /\ CharAt(s, 24) \in {"+", "-"}
             /\ AllDigits(Sub(s, 25, 26))
             /\ Sub(s, 27, 29) = ":00"
    THEN LET off == IF Drop(s, 24) = "Z" THEN 0
                    ELSE IF CharAt(s, 24) = "-" THEN -parseInt(Sub(s, 25, 26))
                    ELSE parseInt(Sub(s, 25, 26))
         IN  DateUTC(parseInt(Sub(s, 1, 4)), parseInt(Sub(s, 6, 7)),
                     parseInt(Sub(s, 9, 10)), parseInt(Sub(s, 12, 13)),
                     parseInt(Sub(s, 15, 16))) - off * 60
    ELSE -1

\* DateTime.fromISO(s, { zone: 'UTC' }) of a Date.prototype.toISOString text
fromISO(s) ==
    LET OfInstant(ts) == IF ts >= 0 THEN Valid(ts, UTCZone) ELSE Invalid(UTCZone)
    IN  OfInstant(InstantOfISO(s))

-----------------------------------------------------------------------------
(* Clock tokens: "8:30am", "14:00", "All Day", "-", ""                     *)

NoClock == [ok |-> FALSE, hh |-> 0, mi |-> 0, rest |-> ""]

\* ^(\d{1,2}):(\d{2}) and what follows it
ClockParts(s) ==
    LET ClockAt(p) ==
            IF /\ p \in {2, 3}
               /\ AllDigits(Sub(s, 1, p - 1))
               /\ Len(s) >= p + 2
               /\ AllDigits(Sub(s, p + 1, p + 2))
            THEN [ok |-> TRUE, hh |-> parseInt(Sub(s, 1, p - 1)),
                  mi |-> parseInt(Sub(s, p + 1, p + 2)), rest |-> Drop(s, p + 3)]
            ELSE NoClock
    IN  ClockAt(IndexOf(s, ":"))

\* /all\s*day/i.test(s)
IsAllDay(s) ==
    LET AllDayIn(t) ==
            \E i \in 1..Len(t) :
                /\ StartsAt(t, i, "all")
                /\ StartsAt(TrimLeft(Drop(t, i + 3)), 1, "day")
    IN  AllDayIn(toLowerCase(s))

\* The test of the three midnight tokens in the normalizers
IsMidnightToken(s) == IsAllDay(s) \/ s = "-" \/ s = ""

\* luxon's reading of the clock part of a format: 'h:mma' (ap the meridiem)
\* or 'H:mm'
LuxonClock(s, fmt) ==
    LET Meridiem(c, ap) ==
            IF ap \notin {"am", "pm"} THEN NoClock
            ELSE [ok |-> TRUE,
                  hh |-> IF c.hh < 12 /\ ap = "pm" THEN c.hh + 12
                         ELSE IF c.hh = 12 /\ ap = "am" THEN 0
                         ELSE c.hh,
                  mi |-> c.mi, rest |-> ""]
        ClockOf(c) ==
            IF ~c.ok THEN NoClock
            ELSE IF fmt = "h:mma" THEN Meridiem(c, toLowerCase(c.rest))
            ELSE IF c.rest = "" THEN c
            ELSE NoClock
    IN  ClockOf(ClockParts(s))

\* The date part of a format: 'yyyy-LL-dd' or 'MM-dd-yyyy', ten characters
LuxonDate(s, fmt) ==
    LET DateParts(y, m, d, shaped) ==
            IF shaped /\ AllDigits(y) /\ AllDigits(m) /\ AllDigits(d)
            THEN [ok |-> TRUE, y |-> parseInt(y), m |-> parseInt(m), d |-> parseInt(d)]
            ELSE [ok |-> FALSE, y |-> 0, m |-> 0, d |-> 0]
    IN  IF fmt = "yyyy-LL-dd"
        THEN DateParts(Sub(s, 1, 4), Sub(s, 6, 7), Sub(s, 9, 10),
                       Len(s) = 10 /\ CharAt(s, 5) = "-" /\ CharAt(s, 8) = "-")
        ELSE DateParts(Sub(s, 7, 10), Sub(s, 1, 2), Sub(s, 4, 5),
                       Len(s) = 10 /\ CharAt(s, 3) = "-" /\ CharAt(s, 6) = "-")

\* The DateTime of a parsed date and a parsed clock
Combine(d, c, zone, shaped) ==
    IF shaped /\ d.ok /\ c.ok THEN FromFields(d.y, d.m, d.d, c.hh, c.mi, zone)
    ELSE Invalid(zone)

\* DateTime.fromFormat(text, dateFmt, { zone })
fromFormatDate(text, dateFmt, zone) ==
    Combine(LuxonDate(text, dateFmt), [ok |-> TRUE, hh |-> 0, mi |-> 0], zone, TRUE)

\* DateTime.fromFormat(text, dateFmt + ' ' + clockFmt, { zone })
fromFormat(text, dateFmt, clockFmt, zone) ==
    Combine(LuxonDate(Sub(text, 1, 10), dateFmt), LuxonClock(Drop(text, 12), clockFmt),
            zone, Len(text) >= 11 /\ CharAt(text, 11) = " ")

\* The clock resolution shared by the normalizers: 12-hour, then 24-hour
ParseClockIn(dateText, timeStr, dateFmt, zone) ==
    LET FirstValid(a, b) == IF a.valid THEN a ELSE b
    IN  FirstValid(fromFormat(dateText \o " " \o timeStr, dateFmt, "h:mma", zone),
                   fromFormat(dateText \o " " \o timeStr, dateFmt, "H:mm", zone))

-----------------------------------------------------------------------------
(* impactNormalize, slugify, dedupeByKey, sort *)

\* A classification that would test "medium" before "high"
impactMediumFirst(s) ==
    IF includes(toLowerCase(s), "medium") \/ includes(toLowerCase(s), "med") THEN "MEDIUM"
    ELSE IF includes(toLowerCase(s), "high") THEN "HIGH"
    ELSE IF includes(toLowerCase(s), "low") THEN "LOW"
    ELSE "UNKNOWN"

impactNormalize(s) ==
    LET ImpactOf(t) ==
            IF includes(t, "high") THEN "HIGH"
            ELSE IF includes(t, "medium") \/ includes(t, "med") THEN "MEDIUM"
            ELSE IF includes(t, "low") THEN "LOW"
            ELSE "UNKNOWN"
    IN  ImpactOf(toLowerCase(s))

\* slugify(s, { lower: true, strict: true }): the replacement character "-"
\* becomes a space, every character other than a letter, a digit or a space
\* is removed, the ends are trimmed, each run of spaces becomes one "-"
RECURSIVE SlugChars(_, _)
SlugChars(s, i) ==
    IF i > Len(s) THEN ""
    ELSE LET c == CharAt(s, i)
         IN  (IF c = "-" \/ IsSpace(c) THEN " "
              ELSE IF IsUpper(c) \/ IsLower(c) \/ IsDigit(c) THEN c
              ELSE "")
             \o SlugChars(s, i + 1)

RECURSIVE Dashes(_, _)
Dashes(s, i) ==
    IF i > Len(s) THEN ""
    ELSE (IF IsSpace(CharAt(s, i)) THEN "-" ELSE CharAt(s, i)) \o Dashes(s, i + 1)

slugify(s) ==
    LET kept == trim(SlugChars(s, 1))
    IN  toLowerCase(Dashes(CollapseSpaces(kept, 1), 1))

\* s.slice(0, n)
slice(s, n) == Sub(s, 1, IF Len(s) < n THEN Len(s) ELSE n)

\* The elements of arr at the indices in keep, in order
RECURSIVE Pick(_, _, _)
Pick(arr, keep, i) ==
    IF i > Len(arr) THEN <<>>
    ELSE (IF i \in keep THEN <<arr[i]>> ELSE <<>>) \o Pick(arr, keep, i + 1)

\* A reduction that would let a later duplicate replace the earlier one
LastSeen(keys) ==
    {i \in DOMAIN keys : \A j \in (i + 1)..Len(keys) : keys[j] /= keys[i]}

\* The indices at which map.has(k) is false: no earlier element has the key
FirstSeen(keys) ==
    {i \in DOMAIN keys : \A j \in 1..(i - 1) : keys[j] /= keys[i]}

\* The key function main passes: x => `${x.startISO}__${x.currency}__${x.title}`
DedupeKey(x) == x.startISO \o "__" \o x.currency \o "__" \o x.title

\* dedupeByKey(arr, DedupeKey): a Map keeps the first value set for each key,
\* in the order of the keys' first insertion
dedupeByKey(arr) ==
    Pick(arr, FirstSeen([i \in 1..Len(arr) |-> DedupeKey(arr[i])]), 1)

\* a.localeCompare(b) of two timestamps: -1, 0 or 1, by the collation rank
\* of their characters at the first index where the ranks differ.  The
\* operands are bound as x and y so that each is evaluated once
localeCompare(a, b) ==
    LET Rank(c) == First({i \in 1..16 : SubSeq("-:.+0123456789TZ", i, i) = c})
        AtFirst(x, y, i) ==
            IF i > Len(x) /\ i > Len(y) THEN 0
            ELSE IF i > Len(x) THEN -1
            ELSE IF i > Len(y) THEN 1
            ELSE IF Rank(CharAt(x, i)) < Rank(CharAt(y, i)) THEN -1 ELSE 1
        Compare(x, y) ==
            {AtFirst(x, y, i) :
                i \in {First({k \in 1..(Len(x) + 1) :
                                \/ k > Len(x) \/ k > Len(y)
                                \/ /\ CharAt(x, k) /= CharAt(y, k)
                                   /\ Rank(CharAt(x, k)) /= Rank(CharAt(y, k))})}}
    IN  CHOOSE r \in UNION {Compare(x, y) : x \in {a}, y \in {b}} : TRUE

\* A comparator that would order the later start first
byStartDescending(a, b) == localeCompare(b.startISO, a.startISO)

\* The comparator of the sorts: (a, b) => a.startISO.localeCompare(b.startISO)
byStartISO(a, b) == localeCompare(a.startISO, b.startISO)

\* Insert x into the sorted list after every element that does not compare
\* greater than it
RECURSIVE InsertSorted(_, _)
InsertSorted(srt, x) ==
    LET Into(s, e) ==
            IF s = <<>> THEN <<e>>
            ELSE IF byStartISO(s[Len(s)], e) <= 0 THEN Append(s, e)
            ELSE Append(InsertSorted(SubSeq(s, 1, Len(s) - 1), e), s[Len(s)])
    IN  CHOOSE r \in {Into(s, e) : s \in {srt}, e \in {x}} : TRUE

\* Array.prototype.sort with that comparator: a stable sort
RECURSIVE sortByStart(_)
sortByStart(arr) ==
    LET Sorted(a) ==
            IF a = <<>> THEN <<>>
            ELSE InsertSorted(sortByStart(SubSeq(a, 1, Len(a) - 1)), a[Len(a)])
    IN  CHOOSE r \in {Sorted(a) : a \in {arr}} : TRUE

-----------------------------------------------------------------------------
(* Documents.  A document is the list of the elements the selectors return *)
(* in document order.  An element has its flattened text and, when it is a *)
(* calendar row with the class hints, the texts of its time, currency and  *)
(* event cells and the title attribute of its impact cell.                 *)

Block(text) ==
    [text |-> text, cells |-> FALSE, time |-> "", cur |-> "", event |-> "", imp |-> ""]

Row(time, cur, event, imp) ==
    [text |-> time \o " " \o cur \o " " \o event, cells |-> TRUE,
     time |-> time, cur |-> cur, event |-> event, imp |-> imp]

WeekdayNames ==
    <<"monday", "tuesday", "wednesday", "thursday", "friday", "saturday", "sunday">>

MonthNames ==
    <<"january", "february", "march", "april", "may", "june", "july", "august",
      "september", "october", "november", "december">>

\* months[name.toLowerCase()], 0 when undefined
MonthNumber(name) == First({i \in 1..12 : MonthNames[i] = toLowerCase(name)})

\* First index >= k of s that holds no space (Len(s) + 1 when none)
SkipSpaces(s, k) ==
    First({p \in k..(Len(s) + 1) : p = Len(s) + 1 \/ ~IsSpace(CharAt(s, p))})

\* First index >= k of s that holds no letter (Len(s) + 1 when none)
LettersEnd(s, k) ==
    First({p \in k..(Len(s) + 1) : p = Len(s) + 1 \/ ~(IsUpper(CharAt(s, p)) \/ IsLower(CharAt(s, p)))})

NoHeader == [ok |-> FALSE, monthName |-> "", day |-> 0]

\* \s+([a-z]+)\s+(\d{1,2}) read from index k: the month name at p1..p2-1 and
\* the day of one or two digits at p3
HeaderTail(s, k) ==
    LET TailDay(p1, p2, p3) ==
            IF p1 > k /\ p2 > p1 /\ p3 > p2 /\ p3 <= Len(s) /\ IsDigit(CharAt(s, p3))
            THEN [ok |-> TRUE, monthName |-> Sub(s, p1, p2 - 1),
                  day |-> parseInt(Sub(s, p3, IF IsDigit(CharAt(s, p3 + 1))
                                              THEN p3 + 1 ELSE p3))]
            ELSE NoHeader
        TailMonth(p1, p2) == TailDay(p1, p2, SkipSpaces(s, p2))
        TailFrom(p1) == TailMonth(p1, LettersEnd(s, p1))
    IN  TailFrom(SkipSpaces(s, k))

\* txt.match(/(monday|...|sunday)\s+([a-z]+)\s+(\d{1,2})/i): the leftmost
\* match; bounded adds the \b...\b around the weekday of the loose strategy
HeaderMatch(s, bounded) ==
    LET HeaderAt(low, i) ==
            \E d \in 1..7 :
                /\ StartsAt(low, i, WeekdayNames[d])
                /\ bounded => Boundary(s, i) /\ Boundary(s, i + Len(WeekdayNames[d]))
                /\ HeaderTail(s, i + Len(WeekdayNames[d])).ok
        HeaderFrom(low, i) ==
            IF i = 0 THEN NoHeader
            ELSE HeaderTail(s, i + Len(WeekdayNames[CHOOSE d \in 1..7 :
                                                         StartsAt(low, i, WeekdayNames[d])]))
        HeaderLow(low) ==
            HeaderFrom(low, First({i \in 1..Len(s) : HeaderAt(low, i)}))
    IN  HeaderLow(toLowerCase(s))

\* isDayHeader: a weekday name and a month name occur in the text
isDayHeader(el) ==
    LET NamesDay(t) ==
            /\ \E d \in 1..7 : includes(t, WeekdayNames[d])
            /\ \E i \in 1..12 : includes(t, MonthNames[i])
    IN  NamesDay(toLowerCase(trim(el.text)))

\* A cursor that would start at the epoch instead of empty
EpochDate == [set |-> TRUE, ts |-> 0]
NoDate == [set |-> FALSE, ts |-> 0]
DateAt(ts) == [set |-> TRUE, ts |-> ts]

\* A header dated in the year its month falls in when the run starts in
\* December: January to November are of the year after the window's
HeaderDateRolled(m, year, cursor) ==
    LET DateIn(mm) ==
            IF m.ok /\ mm > 0
            THEN DateAt(DateUTC(IF mm < 12 THEN year + 1 ELSE year, mm, m.day, 0, 0))
            ELSE cursor
    IN  DateIn(MonthNumber(m.monthName))

\* new Date(Date.UTC(year, mm - 1, dd)) of a header match m when its month
\* name is known, the cursor unchanged otherwise
HeaderDate(m, year, cursor) ==
    LET DateIn(mm) ==
            IF m.ok /\ mm > 0 THEN DateAt(DateUTC(year, mm, m.day, 0, 0)) ELSE cursor
    IN  DateIn(MonthNumber(m.monthName))

\* The instant the structured strategy gives a row, [ok, ts]: the clock c on
\* the day with fields f, ap the text after the clock in lower case
StructuredStart(timeStr, cursor) ==
    LET ClockOn(c, ap, f) ==
            IF c.ok /\ ap \in {"am", "pm"}
            THEN [ok |-> TRUE,
                  ts |-> DateUTC(f.y, f.m, f.d,
                                 IF ap = "pm" /\ c.hh /= 12 THEN c.hh + 12
                                 ELSE IF ap = "am" /\ c.hh = 12 THEN 0
                                 ELSE c.hh,
                                 c.mi)]
            ELSE IF c.ok /\ c.rest = ""
            THEN [ok |-> TRUE, ts |-> DateUTC(f.y, f.m, f.d, c.hh, c.mi)]
            ELSE [ok |-> FALSE, ts |-> 0]
        ClockOnDay(c, f) == ClockOn(c, toLowerCase(TrimLeft(c.rest)), f)
    IN  IF timeStr = "-" \/ timeStr = "" \/ IsAllDay(timeStr)
        THEN [ok |-> TRUE, ts |-> cursor.ts]
        ELSE ClockOnDay(ClockParts(timeStr), FieldsAt(cursor.ts, 0))

RawRow(currency, title, impactRaw, timeStr, dateISO) ==
    [currency |-> currency, title |-> title, impactRaw |-> impactRaw,
     timeStr |-> timeStr, dateISO |-> dateISO]

\* The rows one element adds in the structured strategy
StructuredRow(el, cursor) ==
    LET RowAt(currency, title, impact, timeStr, start) ==
            IF start.ok
            THEN <<RawRow(currency, title, impact, timeStr, toISOString(start.ts))>>
            ELSE <<>>
        RowOf(timeStr, currency, title, impact) ==
            IF currency = "" \/ title = "" THEN <<>>
            ELSE IF ~cursor.set THEN <<>>
            ELSE RowAt(currency, title, impact, timeStr,
                       StructuredStart(timeStr, cursor))
    IN  IF el.cells
        THEN RowOf(trim(el.time), toUpperCase(trim(el.cur)), trim(el.event),
                   trim(el.imp))
        ELSE <<>>

\* One iteration of the loop of extractByKnownClasses: the cursor after the
\* element and the rows it adds
StructuredStep(el, year, cursor) ==
    IF isDayHeader(el)
    THEN [cursor |-> HeaderDate(HeaderMatch(trim(CollapseSpaces(el.text, 1)), FALSE),
                                 year, cursor),
          rows |-> <<>>]
    ELSE [cursor |-> cursor, rows |-> StructuredRow(el, cursor)]

-----------------------------------------------------------------------------
(* The loose strategy *)

\* txt.match(/\b([A-Z]{3})\b/): the matched text, "" when there is no match
CurrencyMatch(s) ==
    LET CurrencyAt(i) ==
            /\ i + 2 <= Len(s)
            /\ \A k \in i..(i + 2) : IsUpper(CharAt(s, k))
            /\ Boundary(s, i)
            /\ Boundary(s, i + 3)
        CurrencyFrom(i) == IF i = 0 THEN "" ELSE Sub(s, i, i + 2)
    IN  CurrencyFrom(First({i \in 1..Len(s) : CurrencyAt(i)}))

\* Length of the match of (\d{1,2}:\d{2}\s*[ap]m|\d{1,2}:\d{2}|All Day|-)
\* at index i, between two \b; 0 when it does not match there.  The clock c
\* of length clockLen starts at i, sp is the first index of c.rest that holds
\* no space
TimeLenAt(s, i) ==
    LET TimeLenWith(c, clockLen, sp) ==
            IF /\ c.ok
               /\ toLowerCase(Sub(c.rest, sp, sp + 1)) \in {"am", "pm"}
               /\ Boundary(s, i + clockLen + sp + 1)
            THEN clockLen + sp + 1
            ELSE IF c.ok /\ Boundary(s, i + clockLen) THEN clockLen
            ELSE IF toLowerCase(Sub(s, i, i + 6)) = "all day" /\ Boundary(s, i + 7)
            THEN 7
            ELSE IF CharAt(s, i) = "-" /\ Boundary(s, i + 1) THEN 1
            ELSE 0
        TimeLenOf(c) ==
            TimeLenWith(c, Len(s) - i + 1 - Len(c.rest), SkipSpaces(c.rest, 1))
    IN  IF Boundary(s, i) THEN TimeLenOf(ClockParts(Drop(s, i))) ELSE 0

\* txt.match of the time expression: the leftmost match, "" when none
TimeMatch(s) ==
    LET TimeFrom(i) == IF i = 0 THEN "" ELSE Sub(s, i, i + TimeLenAt(s, i) - 1)
    IN  TimeFrom(First({i \in 1..Len(s) : TimeLenAt(s, i) > 0}))

\* title.search(/\b(Previous|Forecast|Actual)\b/i): 0-based, -1 when absent
CutIndex(s) ==
    LET KeywordAt(low, i) ==
            \E w \in {"previous", "forecast", "actual"} :
                /\ StartsAt(low, i, w)
                /\ Boundary(s, i)
                /\ Boundary(s, i + Len(w))
        CutIn(low) == First({i \in 1..Len(s) : KeywordAt(low, i)}) - 1
    IN  CutIn(toLowerCase(s))

\* The title of a loose row: the text without the first occurrence of the
\* time and of the currency, cut before the trailing-section keyword
LooseTitle(txt, timeText, curText) ==
    LET TitleCut(title, cutIdx) ==
            IF cutIdx > 0 THEN trim(Sub(title, 1, cutIdx)) ELSE title
        TitleOf(title) == TitleCut(title, CutIndex(title))
    IN  TitleOf(trim(RemoveFirst(RemoveFirst(txt, timeText), curText)))

\* The rows one block adds in the loose strategy
LooseRow(txt, cursor) ==
    LET LooseRowOf(cur, time) ==
            IF cursor.set /\ cur /= "" /\ time /= ""
            THEN <<RawRow(cur, LooseTitle(txt, time, cur), "", time,
                          toISOString(cursor.ts))>>
            ELSE <<>>
    IN  LooseRowOf(CurrencyMatch(txt), TimeMatch(txt))

\* One iteration of the loop of extractFallbackLoose
LooseStep(el, year, cursor) ==
    LET LooseWith(txt, m) ==
            IF m.ok THEN [cursor |-> HeaderDate(m, year, cursor), rows |-> <<>>]
            ELSE [cursor |-> cursor, rows |-> LooseRow(txt, cursor)]
        LooseText(txt) == LooseWith(txt, HeaderMatch(txt, TRUE))
    IN  LooseText(trim(CollapseSpaces(el.text, 1)))

-----------------------------------------------------------------------------
(* The normalizer of the two-strategy scraper *)

\* A record whose id would name the window it was read in
RecordOfWindow(start, title, currency, impact, idTitle, source, year, month) ==
    [id |-> toISO(start) \o "__" \o currency \o "__" \o slugify(idTitle) \o "__" \o month,
     title |-> title, currency |-> currency, impact |-> impact,
     startISO |-> toISO(start), tz |-> start.zone.name,
     source |-> source, year |-> year, month |-> month]

\* The object pushed to all; a field the program does not set is "" (source)
\* or 0 and "" (year, month)
Record(start, title, currency, impact, idTitle, source, year, month) ==
    LET RecordAt(iso) ==
            [id |-> iso \o "__" \o currency \o "__" \o slugify(idTitle),
             title |-> title, currency |-> currency, impact |-> impact,
             startISO |-> iso, tz |-> start.zone.name,
             source |-> source, year |-> year, month |-> month]
    IN  RecordAt(toISO(start))

\* Length to which the title is cut before it is slugged into the id
TitleSlice == 100

\* The start on the day of base: midnight for the midnight tokens, else the
\* clock parsed with that day's date
StartFrom(base, timeStr, tz) ==
    IF IsMidnightToken(timeStr) THEN SetMidnight(base)
    ELSE ParseClockIn(toFormatDate(base), timeStr, "yyyy-LL-dd", tz)

Pushed(start, title, currency, impact, idTitle, source, year, month) ==
    IF start.valid
    THEN <<Record(start, title, currency, impact, idTitle, source, year, month)>>
    ELSE <<>>

\* A filter that would let every currency through
AnyCurrency(currency, currencies) == TRUE

\* CURRENCIES.includes(currency)
CurrencyAllowed(currency, currencies) == currency \in currencies

\* A filter that would keep only the listed impacts
ImpactListed(impact, impacts) == impact \in impacts

\* !(impact !== 'UNKNOWN' && !IMPACTS.includes(impact))
ImpactAllowed(impact, impacts) == impact = "UNKNOWN" \/ impact \in impacts

\* One iteration of the normalize loop: the records row r adds to all
Normalize(r, tz, currencies, impacts, win) ==
    LET Filtered(currency, impact) ==
            IF ~CurrencyAllowed(currency, currencies) THEN <<>>
            ELSE IF ~ImpactAllowed(impact, impacts) THEN <<>>
            ELSE Pushed(StartFrom(setZone(fromISO(r.dateISO), tz), r.timeStr, tz), r.title,
                        currency, impact,
                        slice(r.title, TitleSlice), "", win.y, win.m)
    IN  Filtered(toUpperCase(r.currency), impactNormalize(r.impactRaw))

-----------------------------------------------------------------------------
(* scrapeMonth of the first scraper: extraction, filters and time          *)
(* resolution in one loop, the cursor a luxon DateTime                     *)

\* DateTime.fromFormat(text, 'cccc LLLL d', { zone }): weekday, month and day
\* names of the current year y; invalid when the weekday wd is not that of
\* the date
fromFormatHeader(text, y, zone) ==
    LET LongDateOn(mm, d, wd) ==
            IF d \in 1..DaysInMonth(y, mm) /\ Weekday(y, mm, d) = wd
            THEN FromFields(y, mm, d, 0, 0, zone)
            ELSE Invalid(zone)
        LongDateDay(mm, dayText, wd) ==
            IF mm > 0 /\ AllDigits(dayText) /\ Len(dayText) <= 2
            THEN LongDateOn(mm, parseInt(dayText), wd)
            ELSE Invalid(zone)
        LongDateMonth(wd, p1, p2) ==
            IF CharAt(text, p1 - 1) = " " /\ CharAt(text, p2) = " "
            THEN LongDateDay(MonthNumber(Sub(text, p1, p2 - 1)), Drop(text, p2 + 1), wd)
            ELSE Invalid(zone)
        LongDateAfter(wd, p1) == LongDateMonth(wd, p1, LettersEnd(text, p1))
        LongDateWeekday(wd) ==
            IF wd = 0 THEN Invalid(zone)
            ELSE LongDateAfter(wd, Len(WeekdayNames[wd]) + 2)
    IN  LongDateWeekday(
            First({i \in 1..7 : StartsAt(toLowerCase(text), 1, WeekdayNames[i])}))

\* The cursor after a day-header of scrapeMonth
MonthCursor(dt, year, cursor) ==
    IF dt.valid THEN DateAt(SetYear(dt, year).ts) ELSE cursor

\* One iteration of the loop of scrapeMonth
MonthStep(el, win, nowYear, tz, currencies, impacts, cursor) ==
    LET MonthStart(timeStr) ==
            IF cursor.set /\ timeStr /= ""
            THEN StartFrom(Valid(cursor.ts, tz), timeStr, tz)
            ELSE Invalid(tz)
        MonthRow(timeStr, currency, impact, title) ==
            IF title = "" \/ currency = "" THEN <<>>
            ELSE IF ~CurrencyAllowed(currency, currencies) THEN <<>>
            ELSE IF ~ImpactAllowed(impact, impacts) THEN <<>>
            ELSE Pushed(MonthStart(timeStr), title, currency, impact, title,
                        "forexfactory", win.y, win.m)
    IN  IF isDayHeader(el)
        THEN [cursor |-> MonthCursor(fromFormatHeader(trim(el.text), nowYear, tz),
                                     win.y, cursor),
              rows |-> <<>>]
        ELSE IF ~el.cells THEN [cursor |-> cursor, rows |-> <<>>]
        ELSE [cursor |-> cursor,
              rows |-> MonthRow(trim(el.time), toUpperCase(trim(el.cur)),
                                impactNormalize(trim(el.imp)), trim(el.event))]

-----------------------------------------------------------------------------
(* The weekly feed puller.  A feed event has the texts of its country,     *)
(* title, impact, date and time tags.                                      *)

FeedEvent(country, title, impact, date, time) ==
    [country |-> country, title |-> title, impact |-> impact, date |-> date,
     time |-> time]

\* One iteration of the loop over the feed's events; toUtc is the second
\* version's conversion of the start to UTC
FeedStep(ev, tz, currencies, impacts, toUtc) ==
    LET FeedStart(base, dateStr, timeStr) ==
            IF IsMidnightToken(timeStr) THEN SetMidnight(base)
            ELSE ParseClockIn(dateStr, timeStr, "MM-dd-yyyy", tz)
        FeedPushed(base, start, title, currency, impact) ==
            IF base.valid
            THEN Pushed(IF toUtc THEN toUTC(start) ELSE start, title, currency, impact,
                        slice(title, TitleSlice), "ff_weekly_xml", 0, "")
            ELSE <<>>
        FeedDated(base, dateStr, timeStr, title, currency, impact) ==
            FeedPushed(base, FeedStart(base, dateStr, timeStr), title, currency, impact)
        FeedFields(currency, title, impact, dateStr, timeStr) ==
            IF currency = "" \/ ~CurrencyAllowed(currency, currencies) THEN <<>>
            ELSE IF title = "" THEN <<>>
            ELSE IF ~ImpactAllowed(impact, impacts) THEN <<>>
            ELSE FeedDated(fromFormatDate(dateStr, "MM-dd-yyyy", tz), dateStr, timeStr,
                           title, currency, impact)
    IN  FeedFields(toUpperCase(ev.country), trim(ev.title), impactNormalize(ev.impact),
                   trim(ev.date), trim(ev.time))

-----------------------------------------------------------------------------
(* monthList *)

Window(y, m) == [y |-> y, m |-> Pad(m, 2)]

\* monthList(): the windows now.plus({ months: i }) of the run, now the first
\* day of this month
monthList(start, monthsAhead) ==
    LET PlusMonths(i) ==
            Window(start.y + (start.m - 1 + i) \div 12, ((start.m - 1 + i) % 12) + 1)
    IN  [i \in 1..(IF monthsAhead < 0 THEN 0 ELSE monthsAhead + 1) |-> PlusMonths(i - 1)]

-----------------------------------------------------------------------------
(* Inputs: what the site and the feed may serve, and the configurations    *)

MaxDocLen == 2

Elements ==
    { Block("Monday August 18"), Block("Tuesday August 19"),
      Row("8:30am", "USD", "CPI m/m", "High Impact Expected"),
      Row("8:30am", "usd", "CPI mm", ""),
      Row("5:00pm", "EUR", "ECB Rate", "Low Impact Expected"),
      Block("USD 8:30am") }

FeedEvents ==
    { FeedEvent("USD", "CPI m/m", "High", "08-18-2025", "8:30am"),
      FeedEvent("USD", "CPI m/m", "Low", "08-18-2025", "08:30"),
      FeedEvent("USD", "CPI mm", "", "08-18-2025", "8:30am"),
      FeedEvent("EUR", "ECB Rate", "Medium", "08-17-2025", "All Day"),
      FeedEvent("USD", "", "High", "08-19-2025", "Tentative") }

SeqsUpTo(S, n) == UNION {[1..k -> S] : k \in 0..n}

Docs == SeqsUpTo(Elements, MaxDocLen)
Feeds == SeqsUpTo(FeedEvents, MaxDocLen)

Scrapers == {"scrapeV1", "scrapeV2"}
Pullers == {"pullXmlV1", "pullXmlV2"}

AllImpacts == {"LOW", "MEDIUM", "HIGH"}
CurrencyLists == {{"USD"}, {"USD", "EUR"}}
ImpactLists == {AllImpacts}

Nows == {[y |-> 2025, m |-> 8], [y |-> 2025, m |-> 12]}
MonthsAheadValues == {-1, 0, 1}

Range(f) == {f[i] : i \in DOMAIN f}

AllWindows == UNION {Range(monthList(n, ma)) : n \in Nows, ma \in MonthsAheadValues}
Years == {w.y : w \in AllWindows}
NowYears == {n.y : n \in Nows}

-----------------------------------------------------------------------------
(* The loops over a document.  An iteration is a function of the element,  *)
(* the parameters and the cursor; the loops take it as steps.  For the     *)
(* pages made of Elements the iterations are tabulated once.               *)

ElementSpace ==
    [text : STRING, cells : BOOLEAN, time : STRING, cur : STRING, event : STRING,
     imp : STRING]
CursorSpace == [set : BOOLEAN, ts : Int]
StructuredStepOf ==
    [el \in ElementSpace, y \in Int, c \in CursorSpace |-> StructuredStep(el, y, c)]

LooseStepOf ==
    [el \in ElementSpace, y \in Int, c \in CursorSpace |-> LooseStep(el, y, c)]

NormalizeOf ==
    [r \in [currency : STRING, title : STRING, impactRaw : STRING, timeStr : STRING,
            dateISO : STRING],
     tz \in [name : STRING, off : Int], cs \in SUBSET STRING, is \in SUBSET STRING,
     w \in [y : Int, m : STRING] |-> Normalize(r, tz, cs, is, w)]

MonthStepOf ==
    [el \in ElementSpace, w \in [y : Int, m : STRING], ny \in Int,
     tz \in [name : STRING, off : Int], cs \in SUBSET STRING, is \in SUBSET STRING,
     c \in CursorSpace |-> MonthStep(el, w, ny, tz, cs, is, c)]

\* The loop of a strategy from element i on, the cursor as the elements
\* before i left it
RECURSIVE Scan(_, _, _, _, _)
Scan(steps, doc, year, i, cursor) ==
    IF i > Len(doc) THEN <<>>
    ELSE steps[doc[i], year, cursor].rows
         \o Scan(steps, doc, year, i + 1, steps[doc[i], year, cursor].cursor)

\* extractByKnownClasses: the cursor starts empty
extractByKnownClasses(steps, doc, year) == Scan(steps, doc, year, 1, NoDate)

\* extractFallbackLoose: the cursor starts empty
extractFallbackLoose(steps, doc, year) == Scan(steps, doc, year, 1, NoDate)

\* A selection that would add the rows of the loose strategy to those of
\* the structured one
ExtractBoth(structured, loose, doc, year) ==
    extractByKnownClasses(structured, doc, year) \o extractFallbackLoose(loose, doc, year)

\* The raw rows main gets from a page: raw = await extractByKnownClasses(..);
\* if (raw.length === 0) raw = await extractFallbackLoose(..)
ExtractRaw(structured, loose, doc, year) ==
    LET Fallback(raw, other) == IF Len(raw) = 0 THEN other ELSE raw
    IN  Fallback(extractByKnownClasses(structured, doc, year),
                 extractFallbackLoose(loose, doc, year))

\* The normalize loop of main over the raw rows of one window
RECURSIVE NormalizeAll(_, _, _, _, _, _)
NormalizeAll(norm, raw, tz, currencies, impacts, win) ==
    IF raw = <<>> THEN <<>>
    ELSE norm[raw[1], tz, currencies, impacts, win]
         \o NormalizeAll(norm, Tail(raw), tz, currencies, impacts, win)

RECURSIVE MonthScan(_, _, _, _, _, _, _, _, _)
MonthScan(steps, doc, win, nowYear, tz, currencies, impacts, i, cursor) ==
    IF i > Len(doc) THEN <<>>
    ELSE steps[doc[i], win, nowYear, tz, currencies, impacts, cursor].rows
         \o MonthScan(steps, doc, win, nowYear, tz, currencies, impacts, i + 1,
                      steps[doc[i], win, nowYear, tz, currencies, impacts, cursor].cursor)

\* scrapeMonth: the items of one month page
scrapeMonth(steps, doc, win, nowYear, tz, currencies, impacts) ==
    MonthScan(steps, doc, win, nowYear, tz, currencies, impacts, 1, NoDate)

\* The loop over the events of the feed
RECURSIVE FeedScan(_, _, _, _, _, _)
FeedScan(steps, feed, tz, currencies, impacts, toUtc) ==
    IF feed = <<>> THEN <<>>
    ELSE steps[feed[1], tz, currencies, impacts, toUtc]
         \o FeedScan(steps, Tail(feed), tz, currencies, impacts, toUtc)

\* The cursors the headers among the elements can set in the two strategies
Cursors ==
    {NoDate} \cup
    {HeaderDate(HeaderMatch(trim(CollapseSpaces(el.text, 1)), bounded), y, NoDate) :
        el \in Elements, y \in Years, bounded \in BOOLEAN}

StructuredSteps ==
    [el \in Elements, y \in Years, c \in Cursors |-> StructuredStep(el, y, c)]

LooseSteps ==
    [el \in Elements, y \in Years, c \in Cursors |-> LooseStep(el, y, c)]

RawOf == [d \in Docs, y \in Years |-> ExtractRaw(StructuredSteps, LooseSteps, d, y)]

RawRows == UNION {Range(RawOf[k]) : k \in DOMAIN RawOf}

NormalizeTable ==
    [r \in RawRows, tz \in Zones, cs \in CurrencyLists, is \in ImpactLists,
     w \in AllWindows |-> Normalize(r, tz, cs, is, w)]

\* What one window can add to all in the two-strategy scraper
WindowParts ==
    [tz \in Zones, cs \in CurrencyLists, is \in ImpactLists, w \in AllWindows |->
        {NormalizeAll(NormalizeTable, RawOf[d, w.y], tz, cs, is, w) : d \in Docs}]

\* The cursors the headers among the elements can set in scrapeMonth
MonthCursors ==
    {NoDate} \cup
    {MonthCursor(fromFormatHeader(trim(el.text), ny, tz), w.y, NoDate) :
        el \in Elements, w \in AllWindows, ny \in NowYears, tz \in Zones}

MonthSteps ==
    [el \in Elements, w \in AllWindows, ny \in NowYears, tz \in Zones,
     cs \in CurrencyLists, is \in ImpactLists, c \in MonthCursors |->
        MonthStep(el, w, ny, tz, cs, is, c)]

\* What one window can add to all in the first scraper
MonthParts ==
    [ny \in NowYears, tz \in Zones, cs \in CurrencyLists, is \in ImpactLists,
     w \in AllWindows |-> {scrapeMonth(MonthSteps, d, w, ny, tz, cs, is) : d \in Docs}]

FeedSteps ==
    [ev \in FeedEvents, tz \in Zones, cs \in CurrencyLists, is \in ImpactLists,
     toUtc \in BOOLEAN |-> FeedStep(ev, tz, cs, is, toUtc)]

\* The lists a feed can yield before the sort
FeedOuts ==
    [tz \in Zones, cs \in CurrencyLists, is \in ImpactLists, toUtc \in BOOLEAN |->
        {FeedScan(FeedSteps, f, tz, cs, is, toUtc) : f \in Feeds}]

-----------------------------------------------------------------------------
(* Reduction *)

\* The scrapers: dedupeByKey, then sort
ReduceScrape(list) == sortByStart(dedupeByKey(list))

\* The pullers: sort, then the filter on a set of seen keys
ReduceFeed(list) == dedupeByKey(sortByStart(list))

-----------------------------------------------------------------------------
(* The programs *)

\* Attempts of gotoSafe and of the retry loop of the first scraper
MaxAttempts == 3

NoProbe == [kind |-> "none"]

NoPause == [k |-> 0, ms |-> 0]

\* Math.floor(Math.random() * 500): the least and the greatest value
Jitters == {0, 499}

\* A wait of the same length after every failed attempt
FlatPause(a, jitter) == [k |-> a, ms |-> 1000 + jitter]

\* page.waitForTimeout(1000 * a + Math.floor(Math.random() * 500))
Backoff(a, jitter) == [k |-> a, ms |-> 1000 * a + jitter]

\* The configuration read from the environment and the state at the start of
\* main: the scrapers with their list of windows, the pullers with none
Init ==
    /\ \/ /\ script \in Scrapers
          /\ now \in Nows
          /\ MONTHS_AHEAD \in MonthsAheadValues
          /\ months = monthList(now, MONTHS_AHEAD)
          /\ pc = IF Len(months) = 0 THEN "finish" ELSE "fetch"
       \/ /\ script \in Pullers
          /\ now = [y |-> 2025, m |-> 8]
          /\ MONTHS_AHEAD = -1
          /\ months = <<>>
          /\ pc = "pull"
    /\ TZ \in Zones
    /\ CURRENCIES \in CurrencyLists
    /\ IMPACTS \in ImpactLists
    /\ wi = 1
    /\ attempt = 1
    /\ pause = NoPause
    /\ fetched = [i \in DOMAIN months |-> "none"]
    /\ all = <<>>
    /\ uniq = <<>>
    /\ file = [written |-> FALSE, data |-> <<>>]
    /\ writes = 0
    /\ exitCode = -1
    /\ probe = NoProbe
    /\ IMPACT_COLOR_MODE = "emoji"
    /\ ics = {}

Config ==
    <<script, TZ, CURRENCIES, IMPACTS, now, MONTHS_AHEAD, months, probe,
      IMPACT_COLOR_MODE, ics>>

\* The end of one iteration of the loop over months
NextWindow ==
    /\ attempt' = 1
    /\ wi' = wi + 1
    /\ pc' = IF wi < Len(months) THEN "fetch" ELSE "finish"

\* gotoSafe: an attempt succeeds
GotoOk ==
    /\ pc = "fetch" /\ script = "scrapeV2"
    /\ fetched' = [fetched EXCEPT ![wi] = "ok"]
    /\ pc' = "extract"
    /\ pause' = NoPause
    /\ UNCHANGED <<Config, wi, attempt, all, uniq, file, writes, exitCode>>

\* gotoSafe: an attempt fails and another follows the pause
GotoRetry ==
    /\ pc = "fetch" /\ script = "scrapeV2"
    /\ attempt < MaxAttempts
    /\ attempt' = attempt + 1
    /\ \E jitter \in Jitters : pause' = Backoff(attempt, jitter)
    /\ UNCHANGED <<Config, wi, fetched, all, uniq, file, writes, exitCode, pc>>

\* gotoSafe: the last attempt fails and the error is thrown; main has no
\* handler around the call, so the rejection ends the process
GotoThrow ==
    /\ pc = "fetch" /\ script = "scrapeV2"
    /\ attempt = MaxAttempts
    /\ fetched' = [fetched EXCEPT ![wi] = "failed"]
    /\ exitCode' = 1
    /\ pc' = "done"
    /\ pause' = NoPause
    /\ UNCHANGED <<Config, wi, attempt, all, uniq, file, writes>>

\* A loop that would save what it has after each window
ExtractAndSave ==
    /\ pc = "extract" /\ script = "scrapeV2"
    /\ \E part \in WindowParts[TZ, CURRENCIES, IMPACTS, months[wi]] :
          all' = all \o part
    /\ NextWindow
    /\ pause' = NoPause
    /\ file' = [written |-> TRUE, data |-> all']
    /\ writes' = writes + 1
    /\ UNCHANGED <<Config, fetched, uniq, exitCode>>

\* The two strategies and the normalize loop on the fetched page
ExtractWindow ==
    /\ pc = "extract" /\ script = "scrapeV2"
    /\ \E part \in WindowParts[TZ, CURRENCIES, IMPACTS, months[wi]] :
          all' = all \o part
    /\ NextWindow
    /\ pause' = NoPause
    /\ UNCHANGED <<Config, fetched, uniq, file, writes, exitCode>>

\* First scraper: scrapeMonth returns and its items are added
MonthOk ==
    /\ pc = "fetch" /\ script = "scrapeV1"
    /\ \E part \in MonthParts[now.y, TZ, CURRENCIES, IMPACTS, months[wi]] :
          all' = all \o part
    /\ fetched' = [fetched EXCEPT ![wi] = "ok"]
    /\ NextWindow
    /\ pause' = NoPause
    /\ UNCHANGED <<Config, uniq, file, writes, exitCode>>

\* First scraper: scrapeMonth throws and another attempt follows
MonthRetry ==
    /\ pc = "fetch" /\ script = "scrapeV1"
    /\ attempt < MaxAttempts
    /\ attempt' = attempt + 1
    /\ \E jitter \in Jitters : pause' = Backoff(attempt, jitter)
    /\ UNCHANGED <<Config, wi, fetched, all, uniq, file, writes, exitCode, pc>>

\* First scraper: the last attempt fails, the month is given up
MonthGiveUp ==
    /\ pc = "fetch" /\ script = "scrapeV1"
    /\ attempt = MaxAttempts
    /\ fetched' = [fetched EXCEPT ![wi] = "failed"]
    /\ \E jitter \in Jitters : pause' = Backoff(attempt, jitter)
    /\ NextWindow
    /\ UNCHANGED <<Config, all, uniq, file, writes, exitCode>>

\* The scrapers after the loop: dedupe, sort, write
Finish ==
    /\ pc = "finish" /\ script \in Scrapers
    /\ uniq' = ReduceScrape(all)
    /\ file' = [written |-> TRUE, data |-> uniq']
    /\ writes' = writes + 1
    /\ pc' = "close"
    /\ pause' = NoPause
    /\ UNCHANGED <<Config, wi, attempt, fetched, all, exitCode>>

\* The scrapers' exit after browser.close()
Close ==
    /\ pc = "close" /\ script \in Scrapers
    /\ exitCode' = IF script = "scrapeV2" /\ Len(uniq) = 0 THEN 2 ELSE 0
    /\ pc' = "done"
    /\ pause' = NoPause
    /\ UNCHANGED <<Config, wi, attempt, fetched, all, uniq, file, writes>>

\* The pullers: the download fails and the rejection ends the process
PullFail ==
    /\ pc = "pull" /\ script \in Pullers
    /\ exitCode' = 1
    /\ pc' = "done"
    /\ pause' = NoPause
    /\ UNCHANGED <<Config, wi, attempt, fetched, all, uniq, file, writes>>

\* The pullers: parse, filter, sort, dedupe, write, exit
PullFeed ==
    /\ pc = "pull" /\ script \in Pullers
    /\ \E out \in FeedOuts[TZ, CURRENCIES, IMPACTS, script = "pullXmlV2"] :
          /\ all' = out
          /\ uniq' = ReduceFeed(out)
    /\ file' = [written |-> TRUE, data |-> uniq']
    /\ writes' = writes + 1
    /\ exitCode' = IF Len(uniq') = 0 THEN 2 ELSE 0
    /\ pc' = "done"
    /\ pause' = NoPause
    /\ UNCHANGED <<Config, wi, attempt, fetched>>

Next ==
    \/ GotoOk \/ GotoRetry \/ GotoThrow \/ ExtractWindow
    \/ MonthOk \/ MonthRetry \/ MonthGiveUp
    \/ Finish \/ Close
    \/ PullFail \/ PullFeed

Spec == Init /\ [][Next]_vars

\* Each step of main is a statement of one sequential process that the
\* runtime runs to its end: a step that can be taken is taken
FairSpec == Spec /\ WF_vars(Next)

-----------------------------------------------------------------------------
(* One row under one day-header, and one raw row under two windows: the    *)
(* time resolution and the normalizer observed on their own.  probe holds  *)
(* the inputs of the observation and the records they gave.                *)

\* The 12-hour and the 24-hour writing of the clock h:mi
ClockTokens(h, mi) ==
    << ToString(IF h % 12 = 0 THEN 12 ELSE h % 12) \o ":" \o Pad(mi, 2)
           \o (IF h < 12 THEN "am" ELSE "pm"),
       Pad(h, 2) \o ":" \o Pad(mi, 2) >>

\* What a scraper adds to all for one page of one window
PageRecords(scr, doc, win, nowYear, tz, currencies, impacts) ==
    IF scr = "scrapeV1"
    THEN scrapeMonth(MonthStepOf, doc, win, nowYear, tz, currencies, impacts)
    ELSE NormalizeAll(NormalizeOf, ExtractRaw(StructuredStepOf, LooseStepOf, doc, win.y),
                      tz, currencies, impacts, win)

\* For each token, the records of the page holding the header of August d
\* of 2025 and one row with that token
TokenRecords(scr, d, tokens, win, nowYear, tz) ==
    LET HeaderOf == Block(IF d = 18 THEN "Monday August 18" ELSE "Tuesday August 19")
    IN  [k \in DOMAIN tokens |->
            PageRecords(scr, <<HeaderOf, Row(tokens[k], "USD", "CPI m/m", "High")>>,
                        win, nowYear, tz, {"USD"}, AllImpacts)]

\* The records of raw row r under each of the windows ws
NormalizeEach(r, tz, currencies, impacts, ws) ==
    [k \in DOMAIN ws |-> Normalize(r, tz, currencies, impacts, ws[k])]

InitProbe ==
    /\ script = "scrapeV2"
    /\ TZ = Bangkok
    /\ CURRENCIES = {"USD"}
    /\ IMPACTS = AllImpacts
    /\ now = [y |-> 2025, m |-> 8]
    /\ MONTHS_AHEAD = -1
    /\ months = <<>>
    /\ wi = 1
    /\ attempt = 1
    /\ pause = NoPause
    /\ fetched = <<>>
    /\ all = <<>>
    /\ uniq = <<>>
    /\ file = [written |-> FALSE, data |-> <<>>]
    /\ writes = 0
    /\ exitCode = -1
    /\ pc = "probe"
    /\ probe = NoProbe
    /\ IMPACT_COLOR_MODE = "emoji"
    /\ ics = {}

Observed ==
    <<script, TZ, CURRENCIES, IMPACTS, now, MONTHS_AHEAD, months, wi, attempt, pause,
      fetched, all, uniq, file, writes, exitCode, IMPACT_COLOR_MODE, ics>>

\* A row with a clock token, in its 12-hour and in its 24-hour writing
ClockProbe ==
    /\ pc = "probe"
    /\ \E scr \in Scrapers, zone \in Zones, win \in AllWindows, d \in {18, 19},
          h \in 0..23, mi \in {0, 30} :
          probe' = [kind |-> "clock", scr |-> scr, zone |-> zone, win |-> win,
                    day |-> d, h |-> h, mi |-> mi,
                    recs |-> TokenRecords(scr, d, ClockTokens(h, mi), win, now.y, zone)]
    /\ pc' = "probed"
    /\ UNCHANGED Observed

\* A row with one of the midnight tokens
AllDayProbe ==
    /\ pc = "probe"
    /\ \E scr \in Scrapers, zone \in Zones, win \in AllWindows, d \in {18, 19},
          token \in {"All Day", "-", ""} :
          probe' = [kind |-> "allday", scr |-> scr, zone |-> zone, win |-> win,
                    day |-> d, token |-> token,
                    recs |-> TokenRecords(scr, d, <<token>>, win, now.y, zone)]
    /\ pc' = "probed"
    /\ UNCHANGED Observed

\* One raw row of a page of year y normalized under two windows of that year
NormalizeProbe ==
    /\ pc = "probe"
    /\ \E r \in RawRows, zone \in Zones, cs \in CurrencyLists, w1, w2 \in AllWindows :
          /\ w1.y = parseInt(Sub(r.dateISO, 1, 4))
          /\ w2.y = w1.y
          /\ probe' = [kind |-> "normalize", r |-> r, zone |-> zone, cs |-> cs,
                       w1 |-> w1, w2 |-> w2,
                       recs |-> NormalizeEach(r, zone, cs, AllImpacts, <<w1, w2>>)]
    /\ pc' = "probed"
    /\ UNCHANGED Observed

NextProbe == ClockProbe \/ AllDayProbe \/ NormalizeProbe

SpecProbe == InitProbe /\ [][NextProbe]_vars

-----------------------------------------------------------------------------
(* The filters, the extraction strategies and the title cleanup observed   *)
(* on their own, each on one input                                          *)

\* One row (or one feed event) of currency text cur and impact text imp at
\* 8:30am of Monday August 18 2025, under the allow-lists cs and is
FilterProbe ==
    /\ pc = "probe"
    /\ \E prog \in Scrapers \cup Pullers, cur \in {"USD", "usd", "EUR", ""},
          imp \in {"High Impact Expected", "Medium Impact Expected",
                   "Low Impact Expected", "Med-High", "Non-Economic", ""},
          cs \in CurrencyLists, is \in SUBSET AllImpacts :
          LET Records(page, event) ==
                  IF prog \in Scrapers
                  THEN PageRecords(prog, page, Window(2025, 8), now.y, TZ, cs, is)
                  ELSE FeedStep(event, TZ, cs, is, prog = "pullXmlV2")
          IN  probe' = [kind |-> "filter", prog |-> prog, cur |-> cur, imp |-> imp,
                        cs |-> cs, is |-> is, class |-> impactNormalize(imp),
                        recs |-> Records(<<Block("Monday August 18"),
                                           Row("8:30am", cur, "CPI m/m", imp)>>,
                                         FeedEvent(cur, "CPI m/m", imp, "08-18-2025",
                                                   "8:30am"))]
    /\ pc' = "probed"
    /\ UNCHANGED Observed

\* One page of one window given to a scraper: what each strategy returns,
\* the raw rows main keeps and the records added to all
PageProbe ==
    /\ pc = "probe"
    /\ \E scr \in Scrapers, doc \in Docs, win \in AllWindows :
          probe' = [kind |-> "page", scr |-> scr, doc |-> doc, win |-> win,
                    structured |-> extractByKnownClasses(StructuredStepOf, doc, win.y),
                    loose |-> extractFallbackLoose(LooseStepOf, doc, win.y),
                    raw |-> ExtractRaw(StructuredStepOf, LooseStepOf, doc, win.y),
                    recs |-> PageRecords(scr, doc, win, now.y, TZ, CURRENCIES, IMPACTS)]
    /\ pc' = "probed"
    /\ UNCHANGED Observed

\* One block of text under the header of Monday August 18 in the page of
\* August 2025, given to the loose strategy and to the normalize loop
LooseProbe ==
    /\ pc = "probe"
    /\ \E txt \in {"USD 8:30am CPI m/m Previous 0.2%",
                   "USD 8:30am CPI m/m Forecast 0.3% Actual 0.2%",
                   "USD 8:30am CPI Detail", "USD 8:30am CPI Source BLS",
                   "USD 8:30am Actual 0.3%", "USD 8:30am", "USD 8:30am GD",
                   "8:30am USD GDP q/q", "EUR All Day Bank Holiday"} :
          LET Rows(doc) ==
                  [kind |-> "loose", txt |-> txt,
                   raw |-> extractFallbackLoose(LooseStepOf, doc, 2025),
                   recs |-> PageRecords("scrapeV2", doc, Window(2025, 8), now.y, TZ,
                                        {"USD", "EUR"}, IMPACTS)]
          IN  probe' = Rows(<<Block("Monday August 18"), Block(txt)>>)
    /\ pc' = "probed"
    /\ UNCHANGED Observed

NextExtract == FilterProbe \/ PageProbe \/ LooseProbe

SpecExtract == InitProbe /\ [][NextExtract]_vars

-----------------------------------------------------------------------------
(* build-ics.js: the calendar builder.  file is the dataset it reads, ics   *)
(* the calendar files it writes.  An event of a calendar carries src, the  *)
(* index in the dataset of the record it was created from.                 *)

MaxDataLen == 2

\* A key that would know only LOW and MEDIUM
impactKeyNoHigh(impact) ==
    IF toUpperCase(impact) \in {"LOW", "MEDIUM"} THEN toUpperCase(impact) ELSE "UNKNOWN"

\* impactKey
impactKey(impact) ==
    IF toUpperCase(impact) \in {"LOW", "MEDIUM", "HIGH"} THEN toUpperCase(impact)
    ELSE "UNKNOWN"

\* The dataset is one the scrapers could have left, or a file edited by hand:
\* its records have the fields the builder reads
InitBuild ==
    /\ script = "buildIcs"
    /\ TZ = UTCZone
    /\ CURRENCIES \in CurrencyLists
    /\ IMPACTS = AllImpacts
    /\ now = [y |-> 2025, m |-> 8]
    /\ MONTHS_AHEAD = -1
    /\ months = <<>>
    /\ wi = 1
    /\ attempt = 1
    /\ pause = NoPause
    /\ fetched = <<>>
    /\ all = <<>>
    /\ uniq = <<>>
    /\ LET Item(title, currency, impact, startISO) ==
               [title |-> title, currency |-> currency, impact |-> impact,
                startISO |-> startISO]
       IN  file \in
               {[written |-> FALSE, data |-> <<>>]} \cup
               {[written |-> TRUE, data |-> d] :
                   d \in SeqsUpTo({Item("CPI m/m", "USD", "HIGH", "2025-08-18T08:30:00.000+07:00"),
                                   Item("Bank Holiday", "USD", "LOW", "2025-08-18T00:00:00.000Z"),
                                   Item("FOMC Member Speaks", "USD", "UNKNOWN",
                                        "2025-08-19T14:00:00.000-05:00"),
                                   Item("ECB Rate", "EUR", "MEDIUM", "2025-08-19T12:00:00.000Z"),
                                   Item("GDP q/q", "usd", "medium", "2025-08-19T08:30:00.000+07:00"),
                                   Item("Retail Sales", "USD", "HIGH", "Tentative"),
                                   Item("BoJ Rate", "JPY", "HIGH", "2025-08-19T03:00:00.000Z")},
                                  MaxDataLen)}
    /\ writes = 0
    /\ exitCode = -1
    /\ pc = "start"
    /\ probe = NoProbe
    /\ IMPACT_COLOR_MODE \in {"emoji", "split"}
    /\ ics = {}

BuildFixed ==
    <<script, TZ, CURRENCIES, IMPACTS, now, MONTHS_AHEAD, months, wi, attempt, pause,
      fetched, all, uniq, file, writes, probe, IMPACT_COLOR_MODE>>

\* The tests on the dataset before the loop: exit 1 when the file is
\* missing, exit 2 when it holds no record
BuildStart ==
    /\ pc = "start" /\ script = "buildIcs"
    /\ exitCode' = IF ~file.written THEN 1
                   ELSE IF Len(file.data) = 0 THEN 2
                   ELSE IF CURRENCIES = {} THEN 0
                   ELSE exitCode
    /\ pc' = IF exitCode' = -1 THEN "build" ELSE "done"
    /\ UNCHANGED <<BuildFixed, ics>>

\* One iteration of the loop over CURRENCIES: the three calendars of the
\* currency in split mode, its single calendar otherwise
BuildCurrency ==
    /\ pc = "build" /\ script = "buildIcs"
    /\ \E cur \in CURRENCIES \ {f.cur : f \in ics} :
          LET tagged == [i \in DOMAIN file.data |-> [src |-> i, ev |-> file.data[i]]]
              items == SelectSeq(tagged, LAMBDA x : toUpperCase(x.ev.currency) = cur)
              Created(list, startUtc, category) ==
                  [src |-> list.src,
                   uid |-> toISO(startUtc) \o "__" \o cur \o "__" \o slugify(list.ev.title)
                               \o "@ecocal",
                   start |-> startUtc.ts,
                   end |-> startUtc.ts + 30,
                   summary |-> list.ev.title,
                   categories |-> <<category>>]
              Events(list, Category(_)) ==
                  LET timed == SelectSeq(list, LAMBDA x : toUTC(fromISO(x.ev.startISO)).valid)
                  IN  [n \in DOMAIN timed |->
                          Created(timed[n], toUTC(fromISO(timed[n].ev.startISO)),
                                  Category(timed[n].ev))]
              Bucket(key) == SelectSeq(items, LAMBDA x : impactKey(x.ev.impact) = key)
              Path(suffix) == "forexfactory_" \o toLowerCase(cur) \o suffix \o ".ics"
          IN  /\ ics' = ics \cup
                    IF IMPACT_COLOR_MODE = "split"
                    THEN {[path |-> Path("_" \o toLowerCase(key)), cur |-> cur, key |-> key,
                           events |-> Events(Bucket(key), LAMBDA ev : key)] :
                             key \in {"LOW", "MEDIUM", "HIGH"}}
                    ELSE {[path |-> Path(""), cur |-> cur, key |-> "",
                           events |-> Events(items, LAMBDA ev : impactKey(ev.impact))]}
              /\ pc' = IF CURRENCIES \ {f.cur : f \in ics'} = {} THEN "done" ELSE "build"
    /\ exitCode' = IF pc' = "done" THEN 0 ELSE exitCode
    /\ UNCHANGED BuildFixed

NextBuild == BuildStart \/ BuildCurrency

SpecBuild == InitBuild /\ [][NextBuild]_vars

-----------------------------------------------------------------------------
(* Properties of a run *)

\* C1: when the run has ended, a window whose fetch failed on all three
\* attempts has not stopped it: every window of the list was fetched or given
\* up in its turn, and the dataset with the rows of the other windows was
\* written.
C1_FailedWindowSkipped ==
    pc = "done" =>
        \A i \in DOMAIN fetched :
            fetched[i] = "failed" =>
                /\ \A j \in DOMAIN fetched : fetched[j] /= "none"
                /\ file.written
                /\ file.data = uniq

\* C2: a run that reached the reduction ends with a non-zero status exactly
\* when the reduced dataset is empty.
C2_ExitSignalsEmpty ==
    pc = "done" /\ writes > 0 => (Len(uniq) = 0 <=> exitCode /= 0)

\* C3: the dataset file is either not written or holds a non-empty list.
C3_NoEmptyArtifact == file.written => Len(file.data) > 0

\* C4: every record of the written dataset has a non-empty title, a
\* non-empty currency, an impact of the enumeration and a start that reads
\* back as an instant with its offset.
C4_RecordsWellFormed ==
    \A i \in DOMAIN file.data :
        /\ file.data[i].title /= ""
        /\ file.data[i].currency /= ""
        /\ file.data[i].impact \in {"LOW", "MEDIUM", "HIGH", "UNKNOWN"}
        /\ InstantOfISO(file.data[i].startISO) >= 0

\* C5: no two records of the written dataset carry the same id.
C5_IdsUnique ==
    \A i, j \in DOMAIN file.data : i /= j => file.data[i].id /= file.data[j].id

\* C6: after the reduction the final set holds, for each (instant, currency,
\* title) key of the accumulated list, exactly one record, and it is the
\* first record accumulated with that key.
C6_FirstOfEachKeyKept ==
    writes > 0 =>
        /\ \A j \in DOMAIN uniq : \E i \in DOMAIN all : DedupeKey(all[i]) = DedupeKey(uniq[j])
        /\ \A i \in DOMAIN all :
              /\ Cardinality({j \in DOMAIN uniq : DedupeKey(uniq[j]) = DedupeKey(all[i])}) = 1
              /\ (\A h \in 1..(i - 1) : DedupeKey(all[h]) /= DedupeKey(all[i]))
                     => \E j \in DOMAIN uniq : uniq[j] = all[i]

\* A reduction in which a later record with the key of an earlier, different
\* record was dropped
C6_DuplicateDropped ==
    /\ writes > 0
    /\ \E h, i \in DOMAIN all :
          /\ h < i
          /\ DedupeKey(all[h]) = DedupeKey(all[i])
          /\ all[h] /= all[i]
          /\ \E j \in DOMAIN uniq : uniq[j] = all[h]

\* C7: the written list is in chronological order: the start of a record is
\* not later than the start of the record after it.
C7_Chronological ==
    \A j \in 1..(Len(file.data) - 1) :
        InstantOfISO(file.data[j].startISO) <= InstantOfISO(file.data[j + 1].startISO)

\* A written list of several starts whose records were accumulated with a
\* later start before an earlier one
C7_Reordered ==
    /\ writes > 0
    /\ \E j \in 1..(Len(file.data) - 1) :
          InstantOfISO(file.data[j].startISO) < InstantOfISO(file.data[j + 1].startISO)
    /\ \E h, i \in DOMAIN all :
          h < i /\ InstantOfISO(all[h].startISO) > InstantOfISO(all[i].startISO)

\* C17: every run ends.  The window list of a scraper has MONTHS_AHEAD + 1
\* entries, none when MONTHS_AHEAD is negative, and entry i is the month
\* i - 1 months after the current one; the windows before the current index
\* have been fetched or given up and those after it have not been reached;
\* the index never goes back and advances by one; an attempt is the first,
\* second or third of its window; and the wait after failed attempt k lasts
\* at least 1000k and less than 1000k + 500 milliseconds.
C17_BoundedRun ==
    /\ [](script \in Scrapers =>
            /\ Len(months) = IF MONTHS_AHEAD < 0 THEN 0 ELSE MONTHS_AHEAD + 1
            /\ \A i \in DOMAIN months :
                  12 * months[i].y + parseInt(months[i].m) = 12 * now.y + now.m + i - 1
            /\ wi \in 1..(Len(months) + 1)
            /\ \A i \in DOMAIN months :
                  /\ i < wi => fetched[i] \in {"ok", "failed"}
                  /\ i > wi => fetched[i] = "none"
            /\ attempt \in 1..3
            /\ pause.k \in 0..3
            /\ pause.k > 0 => pause.ms >= 1000 * pause.k /\ pause.ms < 1000 * pause.k + 500)
    /\ [][/\ wi' \in {wi, wi + 1}
          /\ wi' = wi => attempt' >= attempt
          /\ \A i \in DOMAIN fetched : fetched[i] /= "none" => fetched'[i] = fetched[i]]_vars
    /\ <>(pc = "done")

\* The third attempt at the second window, after the longest wait that
\* follows a second failure
C17_ThirdAttempt ==
    /\ Len(months) = 2
    /\ wi = 2
    /\ pc = "fetch"
    /\ attempt = 3
    /\ pause = [k |-> 2, ms |-> 2499]

\* C18: the file is written at most once; when it is written every window
\* of the list has been fetched or given up, and its content is the
\* accumulated list without a repeated key and in the order of the sort;
\* a run that ended on an error wrote nothing.
C18_WrittenOnceAtEnd ==
    /\ writes <= 1
    /\ file.written <=> writes = 1
    /\ file.written =>
          /\ pc \in {"close", "done"}
          /\ wi = Len(months) + 1
          /\ \A i \in DOMAIN months : fetched[i] \in {"ok", "failed"}
          /\ file.data = uniq
          /\ \A i \in DOMAIN all : \E j \in DOMAIN file.data : DedupeKey(file.data[j]) = DedupeKey(all[i])
          /\ \A i, j \in DOMAIN file.data :
                DedupeKey(file.data[i]) = DedupeKey(file.data[j]) => i = j
          /\ \A j \in 1..(Len(file.data) - 1) :
                localeCompare(file.data[j].startISO, file.data[j + 1].startISO) <= 0
    /\ exitCode = 1 => ~file.written /\ file.data = <<>>

\* A run over two windows that wrote its records at the end
C18_TwoWindowsWritten ==
    /\ pc = "done"
    /\ Len(months) = 2
    /\ writes = 1
    /\ Len(all) >= 2
    /\ Len(file.data) >= 1

-----------------------------------------------------------------------------
(* Properties of the time resolution and of the normalizer *)

\* C8: a row with a clock token under the header of August D in a window of
\* year Y gives, for the 12-hour and for the 24-hour writing of the clock,
\* one event whose start read in the configured zone is Y-08-D at that
\* clock, and the two writings give the same instant.
C8_ClockOnHeaderDay ==
    probe.kind = "clock" =>
        /\ \A k \in 1..2 :
              /\ Len(probe.recs[k]) = 1
              /\ FieldsAt(InstantOfISO(probe.recs[k][1].startISO), probe.zone.off) =
                     [y |-> probe.win.y, m |-> 8, d |-> probe.day,
                      h |-> probe.h, mi |-> probe.mi]
        /\ InstantOfISO(probe.recs[1][1].startISO)
               = InstantOfISO(probe.recs[2][1].startISO)

\* C9: a row with the token "All Day", "-" or "" under the header of August D
\* in a window of year Y is kept and starts at 00:00 of Y-08-D in the
\* configured zone.
C9_MidnightOnRowDate ==
    probe.kind = "allday" =>
        /\ Len(probe.recs[1]) = 1
        /\ FieldsAt(InstantOfISO(probe.recs[1][1].startISO), probe.zone.off) =
               [y |-> probe.win.y, m |-> 8, d |-> probe.day, h |-> 0, mi |-> 0]

-----------------------------------------------------------------------------
(* Properties of the filters, the strategies and the title cleanup *)

\* C11: every record a row gives carries the row's currency in upper case,
\* a member of the currency allow-list, and a row whose currency is not in
\* the allow-list gives no record.
C11_CurrencyInAllowList ==
    probe.kind = "filter" =>
        /\ \A n \in DOMAIN probe.recs :
              /\ probe.recs[n].currency = toUpperCase(probe.cur)
              /\ probe.recs[n].currency \in probe.cs
        /\ toUpperCase(probe.cur) \notin probe.cs => probe.recs = <<>>

\* A EUR row under the allow-list USD, of an impact that passes, gave no record
C11_ForeignCurrencyDropped ==
    /\ probe.kind = "filter"
    /\ probe.cur = "EUR"
    /\ probe.cs = {"USD"}
    /\ probe.is = AllImpacts
    /\ probe.recs = <<>>

\* C12: a row of an allowed currency classified UNKNOWN is kept whatever the
\* impact allow-list, a row classified HIGH, MEDIUM or LOW is kept exactly
\* when its class is in the allow-list, and a kept record carries that class.
C12_ImpactFilter ==
    probe.kind = "filter" /\ toUpperCase(probe.cur) \in probe.cs =>
        /\ probe.class = "UNKNOWN" => Len(probe.recs) = 1
        /\ probe.class /= "UNKNOWN" => (Len(probe.recs) = 1 <=> probe.class \in probe.is)
        /\ \A n \in DOMAIN probe.recs :
              /\ probe.recs[n].impact = probe.class
              /\ probe.recs[n].impact = "UNKNOWN" \/ probe.recs[n].impact \in probe.is

\* A row classified UNKNOWN kept under the empty impact allow-list
C12_UnknownUnderEmptyList ==
    /\ probe.kind = "filter"
    /\ probe.is = {}
    /\ probe.class = "UNKNOWN"
    /\ Len(probe.recs) = 1
    /\ probe.recs[1].impact = "UNKNOWN"

\* C13: the class of an impact text is HIGH when the text in lower case
\* contains "high", else MEDIUM when it contains "medium" or "med", else LOW
\* when it contains "low", else UNKNOWN.
C13_ImpactClass ==
    probe.kind = "filter" =>
        probe.class =
            IF \E i \in 1..Len(probe.imp) : toLowerCase(Sub(probe.imp, i, i + 3)) = "high"
            THEN "HIGH"
            ELSE IF \E i \in 1..Len(probe.imp) : toLowerCase(Sub(probe.imp, i, i + 2)) = "med"
            THEN "MEDIUM"
            ELSE IF \E i \in 1..Len(probe.imp) : toLowerCase(Sub(probe.imp, i, i + 2)) = "low"
            THEN "LOW"
            ELSE "UNKNOWN"

\* A text that names two classes, classified by the precedence
C13_HighBeforeMedium ==
    /\ probe.kind = "filter"
    /\ probe.imp = "Med-High"
    /\ probe.class = "HIGH"

C16_OneStrategyPerWindow ==
    probe.kind = "page" /\ probe.scr = "scrapeV2" =>
        /\ probe.structured /= <<>> => probe.raw = probe.structured
        /\ probe.structured = <<>> => probe.raw = probe.loose
        /\ Len(probe.recs) <= Len(probe.raw)

\* Both strategies find rows in the page and only the structured ones are kept
C16_StructuredPreferred ==
    /\ probe.kind = "page"
    /\ probe.scr = "scrapeV2"
    /\ probe.structured /= <<>>
    /\ probe.loose /= <<>>
    /\ probe.loose /= probe.structured
    /\ probe.raw = probe.structured

C15_ShortTitleDropped ==
    probe.kind = "loose" =>
        \A n \in DOMAIN probe.raw : Len(probe.raw[n].title) >= 3

\* C19: no title of a raw row of the loose strategy contains, in any case,
\* one of the trailing-section keywords Previous, Forecast, Actual, Detail
\* and Source.
C19_NoTrailingKeyword ==
    probe.kind = "loose" =>
        \A n \in DOMAIN probe.raw :
            \A w \in {"previous", "forecast", "actual", "detail", "source"} :
                ~includes(toLowerCase(probe.raw[n].title), w)

-----------------------------------------------------------------------------
(* Properties of the calendar builder *)

\* C21 as stated: once the calendars of a currency are written, in split
\* mode every record of that currency whose impact is LOW, MEDIUM or HIGH
\* is the source of exactly one calendar event, in the calendar of its
\* impact, and a record of another impact is the source of none; in the
\* other mode every record of the currency with a valid instant is the
\* source of exactly one event of the single calendar.
C21_EveryRatedEventPlaced ==
    \A i \in DOMAIN file.data :
        LET ev == file.data[i]
            cur == toUpperCase(ev.currency)
            key == toUpperCase(ev.impact)
            Placed == {f \in ics : \E n \in DOMAIN f.events : f.events[n].src = i}
            Times == UNION {{<<f.path, n>> : n \in {m \in DOMAIN f.events : f.events[m].src = i}} :
                              f \in ics}
        IN  cur \in {f.cur : f \in ics} =>
                IF IMPACT_COLOR_MODE = "split"
                THEN IF key \in {"LOW", "MEDIUM", "HIGH"}
                     THEN /\ Cardinality(Times) = 1
                          /\ \A f \in Placed : f.cur = cur /\ f.key = key
                     ELSE Times = {}
                ELSE InstantOfISO(ev.startISO) >= 0 =>
                        /\ Cardinality(Times) = 1
                        /\ \A f \in Placed : f.cur = cur /\ f.key = ""

\* C21 as the builder does it: in split mode a currency has the three
\* calendars LOW, MEDIUM and HIGH and in the other mode a single one; a
\* record is the source of exactly one calendar event when its currency is
\* configured, its instant is valid and, in split mode, its impact is LOW,
\* MEDIUM or HIGH, and that event is in the calendar of its currency (and of
\* its impact in split mode) with its title and its instant; any other
\* record is the source of no event.
C21_ValidRatedEventPlaced ==
    /\ \A f \in ics :
          /\ f.cur \in CURRENCIES
          /\ f.key \in (IF IMPACT_COLOR_MODE = "split" THEN {"LOW", "MEDIUM", "HIGH"} ELSE {""})
          /\ \A n \in DOMAIN f.events : f.events[n].src \in DOMAIN file.data
    /\ \A c \in {f.cur : f \in ics} :
          Cardinality({f \in ics : f.cur = c}) = IF IMPACT_COLOR_MODE = "split" THEN 3 ELSE 1
    /\ \A i \in DOMAIN file.data :
          LET ev == file.data[i]
              cur == toUpperCase(ev.currency)
              key == toUpperCase(ev.impact)
              Placed == {f \in ics : \E n \in DOMAIN f.events : f.events[n].src = i}
              Times == UNION {{<<f.path, n>> : n \in {m \in DOMAIN f.events : f.events[m].src = i}} :
                                f \in ics}
          IN  /\ cur \in {f.cur : f \in ics} =>
                    IF /\ InstantOfISO(ev.startISO) >= 0
                       /\ IMPACT_COLOR_MODE = "split" => key \in {"LOW", "MEDIUM", "HIGH"}
                    THEN /\ Cardinality(Times) = 1
                         /\ \A f \in Placed :
                               /\ f.cur = cur
                               /\ f.key = IF IMPACT_COLOR_MODE = "split" THEN key ELSE ""
                               /\ \A n \in DOMAIN f.events :
                                     f.events[n].src = i =>
                                         /\ f.events[n].summary = ev.title
                                         /\ f.events[n].start = InstantOfISO(ev.startISO)
                    ELSE Times = {}
              /\ cur \notin CURRENCIES => Times = {}

\* A split run over a HIGH record and an UNKNOWN record of USD: the first is
\* in the HIGH calendar alone and the second in none
C21_SplitRun ==
    /\ IMPACT_COLOR_MODE = "split"
    /\ pc = "done"
    /\ exitCode = 0
    /\ Len(file.data) = 2
    /\ file.data[1].currency = "USD" /\ file.data[1].impact = "HIGH"
    /\ InstantOfISO(file.data[1].startISO) >= 0
    /\ file.data[2].currency = "USD" /\ file.data[2].impact = "UNKNOWN"
    /\ \E f \in ics :
          /\ f.path = "forexfactory_usd_high.ics"
          /\ Len(f.events) = 1
          /\ f.events[1].src = 1
    /\ \A f \in ics : \A n \in DOMAIN f.events : f.events[n].src /= 2

====
